---- MODULE Spec2Model ----
(***************************************************************************)
(* CoherenceResourcesDiscoverer (wlsdeploy/tool/discover):                 *)
(* depth-first discovery of the Coherence cluster resource tree, with the  *)
(* attribute handlers that relocate files, URLs and persistence            *)
(* directories into the archive.                                           *)
(*                                                                         *)
(* Strings that the code parses are sequences of one-character strings;    *)
(* every value stored in a dictionary is a record of one shape (Value).    *)
(* A dictionary is a function from key paths to values; a nested           *)
(* OrderedDict is a path whose value is DictVal.                           *)
(***************************************************************************)
EXTENDS Integers, Sequences, FiniteSets, TLC

\* ------------------------------------------------------------------ bounds
\* the provider lists at most this many Coherence clusters
MaxClusters == 2
\* ... and at most this many CoherenceCacheConfig instances per cluster
MaxCacheConfigs == 1
\* total number of attributes the provider returns during one run
MaxAttrs == 2

\* ------------------------------------------------------- model_constants
COHERENCE_CLUSTER_SYSTEM_RESOURCE == "CoherenceClusterSystemResource"
COHERENCE_CACHE_CONFIG == "CoherenceCacheConfig"
COHERENCE_RESOURCE == "CoherenceResource"
COHERENCE_CUSTOM_CLUSTER_CONFIGURATION == "CustomClusterConfigurationFileName"
COHERENCE_CACHE_CONFIG_FILE == "CacheConfigurationFile"
COHERENCE_ACTIVE_DIRECTORY == "ActiveDirectory"
COHERENCE_SNAPSHOT_DIRECTORY == "SnapshotDirectory"
COHERENCE_TRASH_DIRECTORY == "TrashDirectory"
\* an attribute with no registered handler
CLUSTERING_MODE == "ClusteringMode"
\* the sub-folder that the aliases declare under CoherenceResource
COHERENCE_PERSISTENCE_PARAMS == "CoherencePersistenceParams"

\* Python's None, where a string is expected
None == "None"
\* the Python 2 builtin type named file
file == "<type 'file'>"

\* ----------------------------------------------------------------- values
Value(tag, cluster, kind, text) ==
    [tag |-> tag, cluster |-> cluster, kind |-> kind, text |-> text]
\* None as an attribute value
NilVal == Value("nil", "", "", <<>>)
\* a nested OrderedDict
DictVal == Value("dict", "", "", <<>>)
\* a string attribute value
Str(chars) == Value("str", "", "", chars)
\* the name the archive assigns: opaque, determined by the call's arguments
ArchiveName(cluster_name, kind, entry) ==
    Value("archive", cluster_name, kind, entry.text)

\* "http://h/c.xml"
HttpRef ==
    <<"h", "t", "t", "p", ":", "/", "/", "h", "/", "c", ".", "x", "m", "l">>

\* "HTTP://h/c.xml"
UpperHttpRef ==
    <<"H", "T", "T", "P", ":", "/", "/", "h", "/", "c", ".", "x", "m", "l">>

\* "https://h/c.xml"
HttpsRef ==
    <<"h", "t", "t", "p", "s", ":", "/", "/", "h", "/", "c", ".", "x", "m", "l">>

\* "file:/c.xml"
FileRef ==
    <<"f", "i", "l", "e", ":", "/", "c", ".", "x", "m", "l">>

\* "/fs/c.xml"
LocalRef ==
    <<"/", "f", "s", "/", "c", ".", "x", "m", "l">>

\* "::not a valid uri::"
InvalidRef ==
    <<":", ":", "n", "o", "t", " ", "a", " ", "v", "a", "l", "i", "d", " ", "u", "r", "i", ":", ":">>

\* "http://h:-5/c.xml"
BadPortRef ==
    <<"h", "t", "t", "p", ":", "/", "/", "h", ":", "-", "5", "/", "c", ".", "x", "m", "l">>

\* "/cfg/t.xml"
CustomRef ==
    <<"/", "c", "f", "g", "/", "t", ".", "x", "m", "l">>

\* "/data/a"
DirRefA ==
    <<"/", "d", "a", "t", "a", "/", "a">>

\* "rel dir"
DirRefB ==
    <<"r", "e", "l", " ", "d", "i", "r">>

\* "unicast"
OtherRef ==
    <<"u", "n", "i", "c", "a", "s", "t">>

\* ----------------------------------------------------------- dictionaries
\* OrderedDict(): no keys
EmptyDict == [p \in {} |-> NilVal]

\* p is q followed by at least one more key
Under(p, q) == Len(p) > Len(q) /\ SubSeq(p, 1, Len(q)) = q

\* dictionary[key] = v, for the key at path p
Put(d, p, v) ==
    [q \in DOMAIN d \cup {p} |-> IF q = p THEN v ELSE d[q]]

\* dictionary[key] = sub, for a nested dictionary sub
Graft(d, p, sub) ==
    LET kept == {q \in DOMAIN d : q # p /\ ~Under(q, p)}
        new == {p \o r : r \in DOMAIN sub}
    IN  [q \in kept \cup {p} \cup new |->
            IF q = p THEN DictVal
            ELSE IF q \in new THEN sub[SubSeq(q, Len(p) + 1, Len(q))]
            ELSE d[q]]

\* discoverer.add_to_model_if_not_empty(dictionary, entry_name, entry_value)
AddToModelIfNotEmpty(d, p, sub) ==
    IF DOMAIN sub # {} THEN Graft(d, p, sub) ELSE d

\* --------------------------------------------------------- LocationContext
\* LocationContext(): no folders, no name tokens
EmptyLocation == [folders |-> <<>>, tokens |-> [t \in {} |-> None]]

AppendLocation(loc, folder) ==
    [loc EXCEPT !.folders = Append(@, folder)]

PopLocation(loc) ==
    [loc EXCEPT !.folders = SubSeq(@, 1, Len(@) - 1)]

AddNameToken(loc, token, name) ==
    [loc EXCEPT !.tokens =
        [t \in DOMAIN @ \cup {token} |-> IF t = token THEN name ELSE @[t]]]

RemoveNameToken(loc, token) ==
    [loc EXCEPT !.tokens = [t \in DOMAIN @ \ {token} |-> @[t]]]

GetNameForToken(loc, token) ==
    IF token \in DOMAIN loc.tokens THEN loc.tokens[token] ELSE None

\* alias_helper.get_name_token(location): the token of the last folder
GetNameToken(loc) ==
    IF loc.folders = <<>> THEN None
    ELSE loc.folders[Len(loc.folders)]

\* the handlers' look-up, with the token of the wrong folder
ClusterNameOfCacheConfig(loc) ==
    LET temp == AppendLocation(EmptyLocation, COHERENCE_CACHE_CONFIG)
    IN  GetNameForToken(loc, GetNameToken(temp))

\* the first three statements of every handler: the cluster that location
\* is inside of
ClusterName(loc) ==
    LET temp == AppendLocation(EmptyLocation, COHERENCE_CLUSTER_SYSTEM_RESOURCE)
    IN  GetNameForToken(loc, GetNameToken(temp))

\* ------------------------------------------------------------ java.net.URI
Alpha ==
    {"a", "b", "c", "d", "e", "f", "g", "h", "i", "j", "k", "l", "m",
     "n", "o", "p", "q", "r", "s", "t", "u", "v", "w", "x", "y", "z",
     "A", "B", "C", "D", "E", "F", "G", "H", "I", "J", "K", "L", "M",
     "N", "O", "P", "Q", "R", "S", "T", "U", "V", "W", "X", "Y", "Z"}

Digit == {"0", "1", "2", "3", "4", "5", "6", "7", "8", "9"}

SchemeChar == Alpha \cup Digit \cup {"+", "-", "."}

\* characters that no component of a URI may hold unescaped
IllegalChar == {" ", "<", ">", "{", "}", "|", "^"}

\* index of the first of : / ? # in s, 0 when there is none
FirstDelim(s) ==
    LET at == {i \in 1..Len(s) : s[i] \in {":", "/", "?", "#"}}
    IN  IF at = {} THEN 0 ELSE CHOOSE i \in at : \A j \in at : i <= j

\* URI(file_name) and uri.getScheme(): ok is FALSE for URISyntaxException
URIParse(s) ==
    LET d == FirstDelim(s)
        illegal == \E i \in 1..Len(s) : s[i] \in IllegalChar
    IN  IF d > 0 /\ s[d] = ":"
        THEN IF \/ d = 1
                \/ s[1] \notin Alpha
                \/ \E i \in 2..(d - 1) : s[i] \notin SchemeChar
                \/ d = Len(s)
                \/ illegal
             THEN [ok |-> FALSE, scheme |-> <<>>]
             ELSE [ok |-> TRUE, scheme |-> SubSeq(s, 1, d - 1)]
        ELSE [ok |-> ~illegal, scheme |-> <<>>]

\* uri.toURL(): FALSE for MalformedURLException (a port that is no number)
ToURLOk(s) ==
    ~\E i \in 1..(Len(s) - 1) : s[i] = ":" /\ s[i + 1] \notin Digit \cup {"/"}

\* the scheme the code compares with
HttpScheme == <<"h", "t", "t", "p">>

\* _get_from_url that answers (True, None) when the reference does not parse
GetFromUrlFallingThrough(cluster_name, file_name) ==
    LET uri == URIParse(file_name.text)
    IN  IF uri.ok /\ HttpScheme = uri.scheme /\ ToURLOk(file_name.text)
        THEN [success |-> TRUE, url |-> file_name, msgs |-> <<>>]
        ELSE [success |-> TRUE, url |-> NilVal,
              msgs |-> IF uri.ok THEN <<>> ELSE <<"WLSDPLY-06321">>]

\* _get_from_url that tests whether the scheme starts with http
GetFromUrlByPrefix(cluster_name, file_name) ==
    LET uri == URIParse(file_name.text)
    IN  IF ~uri.ok
        THEN [success |-> FALSE, url |-> NilVal, msgs |-> <<"WLSDPLY-06321">>]
        ELSE IF Len(uri.scheme) >= 4 /\ HttpScheme = SubSeq(uri.scheme, 1, 4)
             THEN IF ToURLOk(file_name.text)
                  THEN [success |-> TRUE, url |-> file_name, msgs |-> <<>>]
                  ELSE [success |-> FALSE, url |-> NilVal,
                        msgs |-> <<"WLSDPLY-06321">>]
             ELSE [success |-> TRUE, url |-> NilVal, msgs |-> <<>>]

\* _get_from_url(cluster_name, file_name)
GetFromUrl(cluster_name, file_name) ==
    LET uri == URIParse(file_name.text)
    IN  IF ~uri.ok
        THEN [success |-> FALSE, url |-> NilVal, msgs |-> <<"WLSDPLY-06321">>]
        ELSE IF HttpScheme = uri.scheme
             THEN IF ToURLOk(file_name.text)
                  THEN [success |-> TRUE, url |-> file_name, msgs |-> <<>>]
                  ELSE [success |-> FALSE, url |-> NilVal,
                        msgs |-> <<"WLSDPLY-06321">>]
             ELSE [success |-> TRUE, url |-> NilVal, msgs |-> <<>>]

\* ------------------------------------------------------------- the archive
ArchiveOutcomes ==
    {"ok", "IllegalArgumentException", "WLSDeployArchiveIOException"}

\* FileUtils.getCanonicalFile(File(model_value))
CanonicalOutcomes == {"ok", "IOException", "SecurityException"}

\* one call of the archive writer
Call(op, cluster_name, arg, dir_type, outcome) ==
    [op |-> op, cluster |-> cluster_name, arg |-> arg, dir_type |-> dir_type,
     outcome |-> outcome]

\* what a handler did: the value it returned, the archive calls it made,
\* the warnings and messages it logged, the exception it let escape
Handled(new_name, calls, msgs, raised) ==
    [new_name |-> new_name, calls |-> calls, msgs |-> msgs, raised |-> raised]

\* ---------------------------------------------------------------- handlers
\* a try block that forgets WLSDeployArchiveIOException in its except clause
TryArchiveCatchingArgumentOnly(call, new_name, done, warning) ==
    CASE call.outcome = "ok" -> Handled(new_name, <<call>>, done, "")
      [] call.outcome = "IllegalArgumentException" ->
            Handled(NilVal, <<call>>, warning, "")
      [] OTHER -> Handled(NilVal, <<call>>, <<>>, call.outcome)

\* try: new_name = archive_file.add...(cluster_name, ...)
\* except (IllegalArgumentException, WLSDeployArchiveIOException): new_name = None
TryArchive(call, new_name, done, warning) ==
    IF call.outcome = "ok"
    THEN Handled(new_name, <<call>>, done, "")
    ELSE Handled(NilVal, <<call>>, warning, "")

\* _add_custom_configuration_to_archive(model_name, model_value, location)
AddCustomConfigurationToArchive(model_value, location, canonical, outcome) ==
    LET cluster_name == ClusterName(location)
    IN  IF model_value # NilVal
        THEN LET config_file == IF canonical = "ok" THEN model_value ELSE NilVal
                 msgs1 == IF canonical = "ok" THEN <<>> ELSE <<"WLSDPLY-06314">>
                 new_name1 == IF canonical = "ok" THEN model_value ELSE NilVal
             IN  IF file # None
                 THEN TryArchive(Call("addCoherenceConfigFile", cluster_name,
                                      config_file, "", outcome),
                                 ArchiveName(cluster_name, "config", config_file),
                                 msgs1 \o <<"WLSDPLY-06315">>,
                                 msgs1 \o <<"WLSDPLY-06316">>)
                 ELSE Handled(new_name1, <<>>, msgs1, "")
        ELSE Handled(model_value, <<>>, <<>>, "")

\* _add_cache_config(model_name, model_value, location)
AddCacheConfig(model_value, location, outcome) ==
    LET cluster_name == ClusterName(location)
    IN  IF model_value # NilVal
        THEN LET got == GetFromUrl(cluster_name, model_value)
             IN  IF got.success
                 THEN IF got.url # NilVal
                      THEN TryArchive(Call("addCoherenceConfigFileFromUrl",
                                           cluster_name, got.url, "", outcome),
                                      ArchiveName(cluster_name, "url", got.url),
                                      <<"WLSDPLY-06317">>, <<"WLSDPLY-06318">>)
                      ELSE TryArchive(Call("addCoherenceConfigFile",
                                           cluster_name, model_value, "", outcome),
                                      ArchiveName(cluster_name, "config", model_value),
                                      <<"WLSDPLY-06319">>, <<"WLSDPLY-06318">>)
                 ELSE Handled(model_value, <<>>, got.msgs, "")
        ELSE Handled(model_value, <<>>, <<>>, "")

\* _add_persistence_directory(model_name, model_value, location, dir_type)
AddPersistenceDirectory(model_value, location, dir_type, outcome) ==
    LET cluster_name == ClusterName(location)
    IN  IF model_value # NilVal
        THEN LET call == Call("addCoherencePersistenceDirectory", cluster_name,
                              NilVal, dir_type, outcome)
             IN  CASE outcome = "ok" ->
                        Handled(ArchiveName(cluster_name, dir_type, NilVal),
                                <<call>>, <<"WLSDPLY-06320">>, "")
                   [] outcome = "WLSDeployArchiveIOException" ->
                        Handled(NilVal, <<call>>, <<"WLSDPLY-06318">>, "")
                   [] OTHER ->
                        Handled(model_value, <<call>>, <<>>, outcome)
        ELSE Handled(model_value, <<>>, <<>>, "")

\* _add_active_directory, _add_snapshot_directory, _add_trash_directory
AddActiveDirectory(model_value, location, outcome) ==
    AddPersistenceDirectory(model_value, location, "active", outcome)

\* _add_snapshot_directory with the kind tag of _add_active_directory
AddSnapshotDirectoryAsActive(model_value, location, outcome) ==
    AddPersistenceDirectory(model_value, location, "active", outcome)

AddSnapshotDirectory(model_value, location, outcome) ==
    AddPersistenceDirectory(model_value, location, "snapshot", outcome)

AddTrashDirectory(model_value, location, outcome) ==
    AddPersistenceDirectory(model_value, location, "trash", outcome)

\* the handlers registered by __init__, by attribute name
HandledAttributes ==
    {COHERENCE_CUSTOM_CLUSTER_CONFIGURATION, COHERENCE_CACHE_CONFIG_FILE,
     COHERENCE_ACTIVE_DIRECTORY, COHERENCE_SNAPSHOT_DIRECTORY,
     COHERENCE_TRASH_DIRECTORY}

PersistenceHandler(model_name, model_value, location, outcome) ==
    CASE model_name = COHERENCE_ACTIVE_DIRECTORY ->
            AddActiveDirectory(model_value, location, outcome)
      [] model_name = COHERENCE_SNAPSHOT_DIRECTORY ->
            AddSnapshotDirectory(model_value, location, outcome)
      [] model_name = COHERENCE_TRASH_DIRECTORY ->
            AddTrashDirectory(model_value, location, outcome)

\* ------------------------------------------------------------ the provider
ClusterPool == <<"c1", "c2", "c3", "c4">>

CacheConfigPool == <<"cc1", "cc2", "cc3", "cc4">>

\* _find_names_in_folder(location) answered None
NoneNames == <<None>>

\* what _find_names_in_folder(location) can answer
FindNamesInFolder(pool, max) ==
    {NoneNames} \cup {SubSeq(pool, 1, n) : n \in 0..max}

\* the order in which the provider returns the attributes of a folder
AttributeOrder ==
    <<COHERENCE_CUSTOM_CLUSTER_CONFIGURATION, COHERENCE_CACHE_CONFIG_FILE,
      COHERENCE_ACTIVE_DIRECTORY, COHERENCE_SNAPSHOT_DIRECTORY,
      COHERENCE_TRASH_DIRECTORY, CLUSTERING_MODE>>

\* the attributes the aliases declare for each folder
FolderAttributes(fld) ==
    CASE fld = "cluster" -> {COHERENCE_CUSTOM_CLUSTER_CONFIGURATION, CLUSTERING_MODE}
      [] fld = "cache" -> {COHERENCE_CACHE_CONFIG_FILE}
      [] fld = "resource" -> {CLUSTERING_MODE}
      [] fld = "sub" -> {COHERENCE_ACTIVE_DIRECTORY, COHERENCE_SNAPSHOT_DIRECTORY,
                         COHERENCE_TRASH_DIRECTORY}

AttributeIndex(model_name) ==
    CHOOSE i \in 1..Len(AttributeOrder) : AttributeOrder[i] = model_name

\* raw values the provider returns
CustomConfigurationValues == {NilVal, Str(CustomRef)}

CacheConfigValues ==
    {NilVal, Str(HttpRef), Str(UpperHttpRef), Str(HttpsRef), Str(FileRef),
     Str(LocalRef), Str(InvalidRef), Str(BadPortRef)}

DirectoryValues == {NilVal, Str(DirRefA), Str(DirRefB)}

OtherValues == {NilVal, Str(OtherRef)}

\* the resource_dictionary handed to the constructor
ResourceDictionaries ==
    {EmptyDict,
     Put(Put(EmptyDict, <<"JDBCSystemResource">>, DictVal),
         <<"JDBCSystemResource", "Notes">>, Str(OtherRef))}

\* ------------------------------------------------------------------- state
VARIABLES
    pc,                  \* where the run is
    location,            \* the LocationContext of get_coherence_clusters
    run,                 \* self._dictionary and the result of each method
    okRun,               \* run, replayed with every archive I/O failure
                         \* replaced by a successful write
    resource_dictionary, \* the constructor's argument, as it was passed
    coherence_clusters,  \* names the cluster loop has yet to visit
    coherence_cluster,   \* the cluster loop's variable
    cache_configs,       \* names the cache config loop has yet to visit
    cache_config,        \* the cache config loop's variable
    folder,              \* which dictionary _populate_model_parameters fills
    attrIdx,             \* position of the last attribute read in folder
    attrCount,           \* attributes read so far in this run
    calls,               \* the archive writer's calls, in order
    trace                \* the last attribute handled: _logger records

vars ==
    <<pc, location, run, okRun, resource_dictionary, coherence_clusters,
      coherence_cluster, cache_configs, cache_config, folder, attrIdx,
      attrCount, calls, trace>>

\* the dictionaries of a run: self._dictionary and the local results
Results(dictionary) ==
    [dictionary |-> dictionary, result |-> EmptyDict,
     cache_result |-> EmptyDict, resource_result |-> EmptyDict,
     subfolder_result |-> EmptyDict]

NoTrace ==
    [model_name |-> None, model_value |-> NilVal, cluster_name |-> None,
     handled |-> Handled(NilVal, <<>>, <<>>, "")]

Init ==
    /\ pc = "start"
    /\ location = EmptyLocation
    /\ resource_dictionary \in ResourceDictionaries
    /\ run = Results(resource_dictionary)
    /\ okRun = run
    /\ coherence_clusters = <<>>
    /\ coherence_cluster = None
    /\ cache_configs = <<>>
    /\ cache_config = None
    /\ folder = None
    /\ attrIdx = 0
    /\ attrCount = 0
    /\ calls = <<>>
    /\ trace = NoTrace

\* the archive writer succeeds where it failed with an I/O error
OkOutcome(outcome) ==
    IF outcome = "WLSDeployArchiveIOException" THEN "ok" ELSE outcome

\* ------------------------------------------- the dictionaries, step by step
\* get_coherence_clusters: result = OrderedDict()
NewResult(r) == [r EXCEPT !.result = EmptyDict]

\* result[coherence_cluster] = OrderedDict()
NewCluster(r, cluster) == [r EXCEPT !.result = Put(@, <<cluster>>, DictVal)]

\* get_coherence_cache_config: result = OrderedDict()
NewCacheResult(r) == [r EXCEPT !.cache_result = EmptyDict]

\* result[cache_config] = OrderedDict()
NewCacheConfig(r, name) ==
    [r EXCEPT !.cache_result = Put(@, <<name>>, DictVal)]

\* get_coherence_resource: result = OrderedDict()
NewResourceResult(r) == [r EXCEPT !.resource_result = EmptyDict]

\* _discover_subfolders: the result of the declared sub-folder
NewSubfolderResult(r) == [r EXCEPT !.subfolder_result = EmptyDict]

\* _populate_model_parameters: dictionary[model_name] = value, in the
\* dictionary of the folder being populated
SetAttribute(r, fld, cluster, name, model_name, value) ==
    CASE fld = "cluster" ->
            [r EXCEPT !.result = Put(@, <<cluster, model_name>>, value)]
      [] fld = "cache" ->
            [r EXCEPT !.cache_result = Put(@, <<name, model_name>>, value)]
      [] fld = "resource" ->
            [r EXCEPT !.resource_result = Put(@, <<model_name>>, value)]
      [] fld = "sub" ->
            [r EXCEPT !.subfolder_result = Put(@, <<model_name>>, value)]

\* result[coherence_cluster]['CoherenceCacheConfig'] = ..., empty or not
FoldCacheConfigAlways(r, cluster) ==
    [r EXCEPT !.result =
        Graft(@, <<cluster, COHERENCE_CACHE_CONFIG>>, r.cache_result)]

\* add_to_model_if_not_empty(result[coherence_cluster], 'CoherenceCacheConfig', ...)
FoldCacheConfig(r, cluster) ==
    [r EXCEPT !.result =
        AddToModelIfNotEmpty(@, <<cluster, COHERENCE_CACHE_CONFIG>>, r.cache_result)]

\* add_to_model_if_not_empty(result[coherence_cluster], 'CoherenceResource', ...)
FoldResource(r, cluster) ==
    [r EXCEPT !.result =
        AddToModelIfNotEmpty(@, <<cluster, COHERENCE_RESOURCE>>, r.resource_result)]

\* _discover_subfolders folds the sub-folder into the CoherenceResource result
FoldSubfolder(r) ==
    [r EXCEPT !.resource_result =
        AddToModelIfNotEmpty(@, <<COHERENCE_PERSISTENCE_PARAMS>>, r.subfolder_result)]

\* discover: self._dictionary[model_top_folder_name] = result, empty or not
FoldClustersAlways(r) ==
    [r EXCEPT !.dictionary =
        Graft(@, <<COHERENCE_CLUSTER_SYSTEM_RESOURCE>>, r.result)]

\* discover: add_to_model_if_not_empty(self._dictionary, model_top_folder_name, result)
FoldClusters(r) ==
    [r EXCEPT !.dictionary =
        AddToModelIfNotEmpty(@, <<COHERENCE_CLUSTER_SYSTEM_RESOURCE>>, r.result)]

\* the names a loop iterates: none when the provider answered None
Iterated(names) == IF names # NoneNames THEN names ELSE <<>>

\* ----------------------------------------------------------------- actions
\* discover() calls get_coherence_clusters(), up to the cluster loop
Discover ==
    /\ pc = "start"
    /\ \E names \in FindNamesInFolder(ClusterPool, MaxClusters) :
          coherence_clusters' = Iterated(names)
    /\ location' = AppendLocation(EmptyLocation, COHERENCE_CLUSTER_SYSTEM_RESOURCE)
    /\ run' = NewResult(run)
    /\ okRun' = NewResult(okRun)
    /\ pc' = "clusters"
    /\ UNCHANGED <<resource_dictionary, coherence_cluster, cache_configs,
                   cache_config, folder, attrIdx, attrCount, calls, trace>>

\* the cluster loop takes the next cluster and starts to populate it
ClusterEnter ==
    /\ pc = "clusters"
    /\ coherence_clusters # <<>>
    /\ coherence_cluster' = Head(coherence_clusters)
    /\ coherence_clusters' = Tail(coherence_clusters)
    /\ location' = AddNameToken(location, GetNameToken(location), coherence_cluster')
    /\ run' = NewCluster(run, coherence_cluster')
    /\ okRun' = NewCluster(okRun, coherence_cluster')
    /\ folder' = "cluster"
    /\ attrIdx' = 0
    /\ pc' = "populate"
    /\ UNCHANGED <<resource_dictionary, cache_configs, cache_config,
                   attrCount, calls, trace>>

\* _populate_model_parameters reads one more attribute: the handler's
\* answer h goes to the dictionary, or its exception leaves discover()
Populate(model_name, model_value, h, hOk) ==
    /\ pc = "populate"
    /\ attrCount < MaxAttrs
    /\ model_name \in FolderAttributes(folder)
    /\ AttributeIndex(model_name) > attrIdx
    /\ attrIdx' = AttributeIndex(model_name)
    /\ attrCount' = attrCount + 1
    /\ calls' = calls \o h.calls
    /\ trace' = [model_name |-> model_name, model_value |-> model_value,
                 cluster_name |-> ClusterName(location), handled |-> h]
    /\ IF h.raised # ""
       THEN /\ pc' = "raised"
            /\ UNCHANGED <<run, okRun>>
       ELSE /\ pc' = pc
            /\ run' = SetAttribute(run, folder, coherence_cluster, cache_config,
                                   model_name, h.new_name)
            /\ okRun' = SetAttribute(okRun, folder, coherence_cluster, cache_config,
                                     model_name, hOk.new_name)
    /\ UNCHANGED <<location, resource_dictionary, coherence_clusters,
                   coherence_cluster, cache_configs, cache_config, folder>>

\* an attribute named CustomClusterConfigurationFileName
PopulateCustomConfiguration ==
    \E model_value \in CustomConfigurationValues,
       canonical \in CanonicalOutcomes, outcome \in ArchiveOutcomes :
        Populate(COHERENCE_CUSTOM_CLUSTER_CONFIGURATION, model_value,
                 AddCustomConfigurationToArchive(model_value, location,
                                                 canonical, outcome),
                 AddCustomConfigurationToArchive(model_value, location,
                                                 canonical, OkOutcome(outcome)))

\* an attribute named CacheConfigurationFile
PopulateCacheConfig ==
    \E model_value \in CacheConfigValues, outcome \in ArchiveOutcomes :
        Populate(COHERENCE_CACHE_CONFIG_FILE, model_value,
                 AddCacheConfig(model_value, location, outcome),
                 AddCacheConfig(model_value, location, OkOutcome(outcome)))

\* an attribute named ActiveDirectory, SnapshotDirectory or TrashDirectory
PopulatePersistenceDirectory ==
    \E model_name \in {COHERENCE_ACTIVE_DIRECTORY, COHERENCE_SNAPSHOT_DIRECTORY,
                       COHERENCE_TRASH_DIRECTORY},
       model_value \in DirectoryValues, outcome \in ArchiveOutcomes :
        Populate(model_name, model_value,
                 PersistenceHandler(model_name, model_value, location, outcome),
                 PersistenceHandler(model_name, model_value, location,
                                    OkOutcome(outcome)))

\* an attribute with no handler: the raw value goes to the dictionary
PopulateOther ==
    \E model_value \in OtherValues :
        Populate(CLUSTERING_MODE, model_value,
                 Handled(model_value, <<>>, <<>>, ""),
                 Handled(model_value, <<>>, <<>>, ""))

\* the cluster's attributes are read: get_coherence_cache_config(location),
\* up to the cache config loop
GetCoherenceCacheConfig ==
    /\ pc = "populate"
    /\ folder = "cluster"
    /\ location' = AppendLocation(location, COHERENCE_CACHE_CONFIG)
    /\ \E names \in FindNamesInFolder(CacheConfigPool, MaxCacheConfigs) :
          cache_configs' = Iterated(names)
    /\ run' = NewCacheResult(run)
    /\ okRun' = NewCacheResult(okRun)
    /\ pc' = "cache_configs"
    /\ UNCHANGED <<resource_dictionary, coherence_clusters, coherence_cluster,
                   cache_config, folder, attrIdx, attrCount, calls, trace>>

\* the cache config loop takes the next instance and starts to populate it
CacheConfigEnter ==
    /\ pc = "cache_configs"
    /\ cache_configs # <<>>
    /\ cache_config' = Head(cache_configs)
    /\ cache_configs' = Tail(cache_configs)
    /\ location' = AddNameToken(location, GetNameToken(location), cache_config')
    /\ run' = NewCacheConfig(run, cache_config')
    /\ okRun' = NewCacheConfig(okRun, cache_config')
    /\ folder' = "cache"
    /\ attrIdx' = 0
    /\ pc' = "populate"
    /\ UNCHANGED <<resource_dictionary, coherence_clusters, coherence_cluster,
                   attrCount, calls, trace>>

\* the instance's attributes are read; CoherenceCacheConfig declares no
\* sub-folder, so _discover_subfolders adds nothing; the token is removed
CacheConfigExit ==
    /\ pc = "populate"
    /\ folder = "cache"
    /\ location' = RemoveNameToken(location, GetNameToken(location))
    /\ pc' = "cache_configs"
    /\ UNCHANGED <<run, okRun, resource_dictionary, coherence_clusters,
                   coherence_cluster, cache_configs, cache_config, folder,
                   attrIdx, attrCount, calls, trace>>

\* the cache config loop is over: get_coherence_cache_config returns and
\* the cluster loop folds its result into the cluster
CacheConfigReturn ==
    /\ pc = "cache_configs"
    /\ cache_configs = <<>>
    /\ location' = PopLocation(location)
    /\ run' = FoldCacheConfig(run, coherence_cluster)
    /\ okRun' = FoldCacheConfig(okRun, coherence_cluster)
    /\ pc' = "resource"
    /\ UNCHANGED <<resource_dictionary, coherence_clusters, coherence_cluster,
                   cache_configs, cache_config, folder, attrIdx, attrCount,
                   calls, trace>>

\* get_coherence_resource(location), up to _populate_model_parameters
GetCoherenceResource ==
    /\ pc = "resource"
    /\ location' = AppendLocation(location, COHERENCE_RESOURCE)
    /\ run' = NewResourceResult(run)
    /\ okRun' = NewResourceResult(okRun)
    /\ folder' = "resource"
    /\ attrIdx' = 0
    /\ pc' = "populate"
    /\ UNCHANGED <<resource_dictionary, coherence_clusters, coherence_cluster,
                   cache_configs, cache_config, attrCount, calls, trace>>

\* CoherenceResource's attributes are read: _discover_subfolders descends
\* into the declared sub-folder
DiscoverSubfolders ==
    /\ pc = "populate"
    /\ folder = "resource"
    /\ location' = AppendLocation(location, COHERENCE_PERSISTENCE_PARAMS)
    /\ run' = NewSubfolderResult(run)
    /\ okRun' = NewSubfolderResult(okRun)
    /\ folder' = "sub"
    /\ attrIdx' = 0
    /\ UNCHANGED <<pc, resource_dictionary, coherence_clusters,
                   coherence_cluster, cache_configs, cache_config, attrCount,
                   calls, trace>>

\* the sub-folder's attributes are read: _discover_subfolders pops it and
\* folds its result into the CoherenceResource result
SubfolderReturn ==
    /\ pc = "populate"
    /\ folder = "sub"
    /\ location' = PopLocation(location)
    /\ run' = FoldSubfolder(run)
    /\ okRun' = FoldSubfolder(okRun)
    /\ pc' = "resource_exit"
    /\ UNCHANGED <<resource_dictionary, coherence_clusters, coherence_cluster,
                   cache_configs, cache_config, folder, attrIdx, attrCount,
                   calls, trace>>

\* get_coherence_resource returns; the cluster loop folds its result into
\* the cluster and removes the cluster's token
CoherenceResourceReturn ==
    /\ pc = "resource_exit"
    /\ run' = FoldResource(run, coherence_cluster)
    /\ okRun' = FoldResource(okRun, coherence_cluster)
    /\ location' = RemoveNameToken(PopLocation(location),
                                   GetNameToken(PopLocation(location)))
    /\ pc' = "clusters"
    /\ UNCHANGED <<resource_dictionary, coherence_clusters, coherence_cluster,
                   cache_configs, cache_config, folder, attrIdx, attrCount,
                   calls, trace>>

\* the cluster loop is over: get_coherence_clusters returns and discover()
\* folds its result into self._dictionary and returns
DiscoverReturn ==
    /\ pc = "clusters"
    /\ coherence_clusters = <<>>
    /\ run' = FoldClusters(run)
    /\ okRun' = FoldClusters(okRun)
    /\ pc' = "done"
    /\ UNCHANGED <<location, resource_dictionary, coherence_clusters,
                   coherence_cluster, cache_configs, cache_config, folder,
                   attrIdx, attrCount, calls, trace>>

Next ==
    \/ Discover
    \/ ClusterEnter
    \/ PopulateCustomConfiguration
    \/ PopulateCacheConfig
    \/ PopulatePersistenceDirectory
    \/ PopulateOther
    \/ GetCoherenceCacheConfig
    \/ CacheConfigEnter
    \/ CacheConfigExit
    \/ CacheConfigReturn
    \/ GetCoherenceResource
    \/ DiscoverSubfolders
    \/ SubfolderReturn
    \/ CoherenceResourceReturn
    \/ DiscoverReturn

Spec == Init /\ [][Next]_vars

\* ------------------------------------------------------------ observations
\* the last step read an attribute of the folder being populated
JustPopulated == pc = "populate" /\ attrIdx > 0

\* the key, in the dictionary of the folder being populated, of the
\* attribute last read
Slot ==
    CASE folder = "cluster" -> <<coherence_cluster, trace.model_name>>
      [] folder = "cache" -> <<cache_config, trace.model_name>>
      [] OTHER -> <<trace.model_name>>

\* the dictionary that _populate_model_parameters is filling, in run r
Populated(r) ==
    CASE folder = "cluster" -> r.result
      [] folder = "cache" -> r.cache_result
      [] folder = "resource" -> r.resource_result
      [] OTHER -> r.subfolder_result

\* the last step ran the handler of an attribute, which returned or raised
JustHandled == JustPopulated \/ pc = "raised"

\* the attribute last read is in the dictionary with the value v
StoredAs(v) == Slot \in DOMAIN Populated(run) /\ Populated(run)[Slot] = v

\* the archive calls of the last attribute handler
Made == trace.handled.calls

\* the last handler's archive write failed with outcome o
Failed(o) == Made # <<>> /\ Made[1].outcome = o

\* the container at path p of dictionary d has no entry
EmptyAt(d, p) == d[p] = DictVal /\ ~\E q \in DOMAIN d : Under(q, p)

\* the keys under which add_to_model_if_not_empty folds a result
FolderKeys ==
    {COHERENCE_CLUSTER_SYSTEM_RESOURCE, COHERENCE_CACHE_CONFIG,
     COHERENCE_RESOURCE, COHERENCE_PERSISTENCE_PARAMS}

PersistenceAttributes ==
    {COHERENCE_ACTIVE_DIRECTORY, COHERENCE_SNAPSHOT_DIRECTORY,
     COHERENCE_TRASH_DIRECTORY}

\* the kind tag that belongs to each persistence directory attribute
KindOf(model_name) ==
    CASE model_name = COHERENCE_ACTIVE_DIRECTORY -> "active"
      [] model_name = COHERENCE_SNAPSHOT_DIRECTORY -> "snapshot"
      [] model_name = COHERENCE_TRASH_DIRECTORY -> "trash"

\* the location at the head of the cluster loop
ClustersLocation ==
    AppendLocation(EmptyLocation, COHERENCE_CLUSTER_SYSTEM_RESOURCE)

\* the location at the head of the cache config loop of a cluster
CacheConfigsLocation(cluster) ==
    AppendLocation(AddNameToken(ClustersLocation,
                                COHERENCE_CLUSTER_SYSTEM_RESOURCE, cluster),
                   COHERENCE_CACHE_CONFIG)

\* references that java.net.URI accepts, and those of them with scheme http
WellFormedRefs ==
    {HttpRef, UpperHttpRef, HttpsRef, FileRef, LocalRef, BadPortRef}

HttpSchemeRefs == {HttpRef, BadPortRef}

\* ------------------------------------------------------------------ claims
\* C1: whatever the archive writer answers to addConfigFile,
\* addConfigFileFromURL and addPersistenceDirectory, no error propagates out
\* of discover().
C1_NoErrorLeavesDiscover == pc # "raised"

\* C2: an archive write that fails with an archive I/O failure leaves nil in
\* the attribute and does not stop the traversal; every dictionary of the
\* run has the keys of the run in which the write succeeds, and the same
\* value under every key but the ones whose write failed.
C2_IOFailureIsLocal ==
    /\ (JustHandled /\ Failed("WLSDeployArchiveIOException")) =>
          /\ pc # "raised"
          /\ trace.handled.new_name = NilVal
          /\ StoredAs(NilVal)
    /\ \A f \in {"dictionary", "result", "cache_result", "resource_result",
                 "subfolder_result"} :
          /\ DOMAIN run[f] = DOMAIN okRun[f]
          /\ \A p \in DOMAIN run[f] :
                \/ run[f][p] = okRun[f][p]
                \/ /\ run[f][p] = NilVal
                   /\ okRun[f][p].tag = "archive"
                   /\ \E i \in 1..Len(calls) :
                         /\ calls[i].outcome = "WLSDeployArchiveIOException"
                         /\ calls[i].cluster = okRun[f][p].cluster

\* C2 witness: discover() has returned a model with two clusters, the
\* first one with a nil attribute whose write failed, the second one with
\* an archived attribute.
C2_Witness ==
    /\ pc = "done"
    /\ \E p \in DOMAIN run.dictionary :
          /\ run.dictionary[p] = NilVal
          /\ okRun.dictionary[p].tag = "archive"
          /\ p[2] = "c1"
    /\ \E p \in DOMAIN run.dictionary :
          /\ run.dictionary[p].tag = "archive"
          /\ p[2] = "c2"

C4_CanonicalFailureSkipsArchive ==
    (/\ JustHandled
     /\ trace.model_name = COHERENCE_CUSTOM_CLUSTER_CONFIGURATION
     /\ trace.model_value # NilVal
     /\ \E i \in 1..Len(trace.handled.msgs) :
           trace.handled.msgs[i] = "WLSDPLY-06314")
    => /\ Made = <<>>
       /\ trace.handled.new_name = NilVal

\* C5: after every cluster instance and every cache config instance the
\* location is what it was before the instance, on every exit path: at the
\* head of the cluster loop, and once discover() is left, no token is bound
\* and one folder is pushed; at the head of the cache config loop only the
\* cluster's token is bound and two folders are pushed.
C5_LocationRestored ==
    /\ pc \in {"clusters", "done", "raised"} => location = ClustersLocation
    /\ pc = "cache_configs" => location = CacheConfigsLocation(coherence_cluster)

\* C6 (as claimed): no dictionary nested in the model that discover()
\* returns is empty.
C6_NoEmptyContainer ==
    pc = "done" =>
        \A p \in DOMAIN run.dictionary : ~EmptyAt(run.dictionary, p)

\* C6 (amended): in the model that discover() returns, every dictionary
\* folded under a folder key (the root resource type, CoherenceCacheConfig,
\* CoherenceResource and its sub-folder) has an entry; the dictionary of a
\* cluster or cache config instance may be empty.
C6_NoEmptyFolder ==
    pc = "done" =>
        \A p \in DOMAIN run.dictionary :
            EmptyAt(run.dictionary, p) =>
                /\ p[Len(p)] \notin FolderKeys
                /\ Len(p) \in {2, 4}
                /\ p[Len(p) - 1] \in {COHERENCE_CLUSTER_SYSTEM_RESOURCE,
                                      COHERENCE_CACHE_CONFIG}

\* C6 witness: the returned model has a cluster with a CoherenceCacheConfig
\* and a CoherenceResource entry, and a cluster whose dictionary is empty.
C6_Witness ==
    /\ pc = "done"
    /\ <<COHERENCE_CLUSTER_SYSTEM_RESOURCE, "c1", COHERENCE_CACHE_CONFIG>>
          \in DOMAIN run.dictionary
    /\ <<COHERENCE_CLUSTER_SYSTEM_RESOURCE, "c1", COHERENCE_RESOURCE>>
          \in DOMAIN run.dictionary
    /\ <<COHERENCE_CLUSTER_SYSTEM_RESOURCE, "c2">> \in DOMAIN run.dictionary
    /\ EmptyAt(run.dictionary, <<COHERENCE_CLUSTER_SYSTEM_RESOURCE, "c2">>)

\* C7: when the provider lists no cluster, discover() returns the
\* dictionary it was given, with no entry under the root key, and no
\* archive call was made.
C7_NothingDiscovered ==
    (pc = "done" /\ coherence_cluster = None) =>
        /\ run.dictionary = resource_dictionary
        /\ ~\E p \in DOMAIN run.dictionary :
              p[1] = COHERENCE_CLUSTER_SYSTEM_RESOURCE
        /\ calls = <<>>

\* C7 witness: discover() has returned and the cluster loop never ran.
C7_Witness ==
    /\ pc = "done"
    /\ coherence_cluster = None
    /\ resource_dictionary # EmptyDict

C9_PersistenceDirectory ==
    (JustHandled /\ trace.model_name \in PersistenceAttributes) =>
       /\ trace.model_value # NilVal =>
             /\ Len(Made) = 1
             /\ Made[1].op = "addCoherencePersistenceDirectory"
             /\ Made[1].cluster = coherence_cluster
             /\ Made[1].dir_type = KindOf(trace.model_name)
             /\ Made[1].outcome = "ok" =>
                   /\ trace.handled.new_name =
                         Value("archive", coherence_cluster,
                               KindOf(trace.model_name), <<>>)
                   /\ StoredAs(trace.handled.new_name)
       /\ trace.model_value = NilVal =>
             /\ Made = <<>>
             /\ trace.handled.new_name = NilVal
             /\ StoredAs(NilVal)

\* C9 witness: the snapshot directory of c2 was read with a non-null value
\* and the archive allocated the directory.
C9_Witness ==
    /\ JustPopulated
    /\ trace.model_name = COHERENCE_SNAPSHOT_DIRECTORY
    /\ trace.model_value = Str(DirRefB)
    /\ coherence_cluster = "c2"
    /\ Len(Made) = 1
    /\ Made[1].outcome = "ok"

\* C10: while attributes are read, at cluster level and below, the cluster
\* token is bound in the location to the cluster of the loop iteration in
\* progress, and every archive call carries that cluster's name.
C10_CallsNamespaced ==
    [][/\ pc = "populate" =>
             /\ coherence_cluster \in {ClusterPool[i] : i \in 1..Len(ClusterPool)}
             /\ GetNameForToken(location, COHERENCE_CLUSTER_SYSTEM_RESOURCE)
                   = coherence_cluster
       /\ calls' # calls =>
             /\ Len(calls') = Len(calls) + 1
             /\ calls'[Len(calls')].cluster = coherence_cluster
             /\ coherence_cluster' = coherence_cluster]_vars

\* C10 witness: archive calls were made for c1 from the cluster level and
\* for c2 from inside its CoherenceCacheConfig folder.
C10_Witness ==
    /\ Len(calls) = 2
    /\ calls[1].cluster = "c1"
    /\ calls[1].op = "addCoherenceConfigFile"
    /\ calls[2].cluster = "c2"
    /\ folder = "cache"
    /\ JustPopulated

====
